---- MODULE Spec2Model ----
(***************************************************************************)
(* Model of the four analysis routines of the diagnosys package:           *)
(*   class_conditional_distribution   (grouped descriptive statistics)     *)
(*   detect_outliers_isolation_forest (multivariate outlier scoring)       *)
(*   proc_univariate                  (single-variable report)             *)
(*   stat_explore                     (per-column summary report)          *)
(* Each routine is one action: the call consumes the inputs drawn by Init  *)
(* and leaves its return value, its exception and its printed lines in the *)
(* state.  Numbers are exact: cells are integers, statistics are rationals *)
(* num/den, and a missing cell / undefined statistic is NaN.               *)
(***************************************************************************)
EXTENDS Integers, Sequences, FiniteSets, TLC

VARIABLES fn, df, args, pc, ret, exc, stdout, iso

vars == <<fn, df, args, pc, ret, exc, stdout, iso>>

(***************************************************************************)
(* Bounds of the model.                                                    *)
(***************************************************************************)
MaxRows == 4        \* rows of a dataset given to class_conditional_distribution
MaxObs == 6         \* observations of a column given to proc_univariate
MaxIfRows == 3      \* rows of a dataset given to detect_outliers_isolation_forest
MaxCols == 3        \* columns of a dataset given to stat_explore
MaxSeRows == 2      \* rows of a dataset given to stat_explore

(***************************************************************************)
(* Cells and numbers.                                                      *)
(***************************************************************************)
NaN == -99          \* np.nan as a cell of a column: the missing value

isnull(x) == x = NaN
notnull(x) == x # NaN

\* A statistic: the rational num/den (den > 0), or undefined.
Rat(n, d) == [nan |-> FALSE, num |-> n, den |-> d]
nan == [nan |-> TRUE, num |-> 0, den |-> 1]
Num(x) == Rat(x, 1)

RatEq(a, b) == /\ a.nan = b.nan
               /\ (~a.nan => a.num * b.den = b.num * a.den)
RatLeq(a, b) == ~a.nan /\ ~b.nan /\ a.num * b.den <= b.num * a.den
RatSub(a, b) == IF a.nan \/ b.nan THEN nan
                ELSE Rat(a.num * b.den - b.num * a.den, a.den * b.den)
\* a / b in floating point: 0/0 and x/NaN are NaN (x/0 with x # 0 is +-inf,
\* which no statistic of the model produces).
RatDiv(n, d) == IF d = 0 THEN nan ELSE IF d < 0 THEN Rat(-n, -d) ELSE Rat(n, d)
\* The square root of a rational, kept as its radicand.
Sqrt(a) == [nan |-> a.nan, radicand |-> a]
IsZeroRoot(r) == ~r.nan /\ r.radicand.num = 0

Range(s) == {s[i] : i \in DOMAIN s}

RECURSIVE SeqSum(_)
SeqSum(s) == IF s = <<>> THEN 0 ELSE Head(s) + SeqSum(Tail(s))

RECURSIVE Pow(_, _)
Pow(b, e) == IF e = 0 THEN 1 ELSE b * Pow(b, e - 1)

SetMin(S) == CHOOSE x \in S : \A y \in S : x <= y
SetMax(S) == CHOOSE x \in S : \A y \in S : x >= y

\* Series.dropna(): the non-missing cells, in row order.
dropna(s) == SelectSeq(s, notnull)

\* np.sort / the order statistics of a column without missing cells.
RECURSIVE np_sort(_)
np_sort(s) ==
    IF s = <<>> THEN <<>>
    ELSE LET m == SetMin(Range(s))
             i == CHOOSE k \in DOMAIN s : s[k] = m
         IN <<m>> \o np_sort(SubSeq(s, 1, i - 1) \o SubSeq(s, i + 1, Len(s)))

\* n^k * sum((x - mean)^k): the k-th central sum, cleared of denominators.
CentralSum(s, k) ==
    LET n == Len(s)
        S == SeqSum(s)
    IN SeqSum([i \in DOMAIN s |-> Pow(n * s[i] - S, k)])

\* Series.mean() (missing cells skipped).
Mean(s) == LET c == dropna(s) IN RatDiv(SeqSum(c), Len(c))

\* Series.median(): the middle order statistic, or the mean of the two middle ones.
Median(s) ==
    LET c == np_sort(dropna(s))
        n == Len(c)
    IN IF n = 0 THEN nan
       ELSE IF n % 2 = 1 THEN Num(c[(n + 1) \div 2])
       ELSE Rat(c[n \div 2] + c[n \div 2 + 1], 2)

Minimum(s) == LET c == dropna(s) IN IF c = <<>> THEN nan ELSE Num(SetMin(Range(c)))
Maximum(s) == LET c == dropna(s) IN IF c = <<>> THEN nan ELSE Num(SetMax(Range(c)))

\* Series.var(ddof=1): sum((x - mean)^2) / (n - 1); NaN when n <= 1.
Variance(s) ==
    LET c == dropna(s)
        n == Len(c)
    IN IF n = 0 THEN nan ELSE RatDiv(CentralSum(c, 2), n * n * (n - 1))

\* Series.std(ddof=1)
StdDev(s) == Sqrt(Variance(s))

\* Series.skew(): bias-corrected g1 = m3 / m2^1.5, kept as its central sums;
\* NaN below 3 observations, 0 for a constant column.
Skew(s) ==
    LET c == dropna(s)
        n == Len(c)
    IN [nan |-> n < 3, zero |-> CentralSum(c, 2) = 0, n |-> n,
        m2 |-> CentralSum(c, 2), mk |-> CentralSum(c, 3)]

\* Series.kurt(): bias-corrected excess kurtosis, kept as its central sums;
\* NaN below 4 observations, 0 for a constant column.
Kurt(s) ==
    LET c == dropna(s)
        n == Len(c)
    IN [nan |-> n < 4, zero |-> CentralSum(c, 2) = 0, n |-> n,
        m2 |-> CentralSum(c, 2), mk |-> CentralSum(c, 4)]

\* df[col]: the column of a row-wise dataset.
Column(rows, col) == [i \in DOMAIN rows |-> rows[i][col]]

\* The ascending sequence of the elements of a finite set of integers.
RECURSIVE Ascending(_)
Ascending(S) == IF S = {} THEN <<>>
                ELSE LET m == SetMin(S) IN <<m>> \o Ascending(S \ {m})

(***************************************************************************)
(* class_conditional_distribution                                          *)
(***************************************************************************)
\* groupby(target_col): the distinct non-missing keys, ascending; rows whose
\* key is missing belong to no group.
GroupKeys(rows, target_col) ==
    Ascending({rows[i][target_col] : i \in DOMAIN rows} \ {NaN})

\* The analysis column restricted to the rows of group g.
GroupSeries(rows, target_col, analysis_col, g) ==
    LET InG(r) == r[target_col] = g
    IN Column(SelectSeq(rows, InG), analysis_col)

\* x.isnull().sum() and x.notnull().sum()
MissingCount(s) == Len(SelectSeq(s, isnull))
NonMissingCount(s) == Len(SelectSeq(s, notnull))

\* The aggregations dictionary applied to one series.
Aggregations(s) ==
    [Median |-> Median(s), Minimum |-> Minimum(s), Maximum |-> Maximum(s),
     Mean |-> Mean(s), StandardDeviation |-> StdDev(s),
     Skewness |-> Skew(s), Kurtosis |-> Kurt(s)]

\* df.groupby(target_col)[analysis_col].agg(**aggregations).reset_index()
grouped_analysis(rows, target_col, analysis_col) ==
    LET keys == GroupKeys(rows, target_col)
    IN [k \in DOMAIN keys |->
          [key |-> keys[k]] @@
          Aggregations(GroupSeries(rows, target_col, analysis_col, keys[k]))]

\* The missing cells counted over the whole column for every group.
missing_counts_whole_column(rows, target_col, analysis_col) ==
    LET keys == GroupKeys(rows, target_col)
    IN [k \in DOMAIN keys |->
          [key |-> keys[k], Missing |-> MissingCount(Column(rows, analysis_col))]]

\* df.groupby(target_col)[analysis_col].apply(isnull().sum()).reset_index(name='Missing')
missing_counts(rows, target_col, analysis_col) ==
    LET keys == GroupKeys(rows, target_col)
    IN [k \in DOMAIN keys |->
          [key |-> keys[k],
           Missing |-> MissingCount(GroupSeries(rows, target_col, analysis_col, keys[k]))]]

\* df.groupby(target_col)[analysis_col].apply(notnull().sum()).reset_index(name='Non Missing')
non_missing_counts(rows, target_col, analysis_col) ==
    LET keys == GroupKeys(rows, target_col)
    IN [k \in DOMAIN keys |->
          [key |-> keys[k],
           NonMissing |-> NonMissingCount(GroupSeries(rows, target_col, analysis_col, keys[k]))]]

\* pd.merge(left, right, on=key): the inner join, in the order of the left rows.
RECURSIVE merge(_, _)
merge(left, right) ==
    IF left = <<>> THEN <<>>
    ELSE LET l == Head(left)
             SameKey(r) == r.key = l.key
             hits == SelectSeq(right, SameKey)
         IN [j \in DOMAIN hits |-> l @@ hits[j]] \o merge(Tail(left), right)

\* rename(columns={target_col: 'Target Level'}) and insert(0, 'Target', target_col)
WithTarget(r, target_col) ==
    [Target |-> target_col, TargetLevel |-> r.key, Median |-> r.Median,
     Missing |-> r.Missing, NonMissing |-> r.NonMissing, Minimum |-> r.Minimum,
     Maximum |-> r.Maximum, Mean |-> r.Mean,
     StandardDeviation |-> r.StandardDeviation, Skewness |-> r.Skewness,
     Kurtosis |-> r.Kurtosis]

\* The '_OVERALL_' row: the statistics of the whole column.
overall_stats(rows, target_col, analysis_col) ==
    LET s == Column(rows, analysis_col)
    IN [Target |-> target_col, TargetLevel |-> "_OVERALL_", Median |-> Median(s),
        Missing |-> MissingCount(s), NonMissing |-> NonMissingCount(s),
        Minimum |-> Minimum(s), Maximum |-> Maximum(s), Mean |-> Mean(s),
        StandardDeviation |-> StdDev(s), Skewness |-> Skew(s),
        Kurtosis |-> Kurt(s)]

\* The table class_conditional_distribution returns.
class_conditional_distribution_table(rows, target_col, analysis_col) ==
    LET ga == grouped_analysis(rows, target_col, analysis_col)
        mc == missing_counts(rows, target_col, analysis_col)
        nc == non_missing_counts(rows, target_col, analysis_col)
        merged == merge(merge(ga, mc), nc)
        result_df == [i \in DOMAIN merged |-> WithTarget(merged[i], target_col)]
    IN result_df \o <<overall_stats(rows, target_col, analysis_col)>>

\* Sequences over S of length lo..hi.
SeqsOf(S, lo, hi) == UNION {[1..n -> S] : n \in lo..hi}

\* The estimator object before IsolationForest(...) is built and fitted.
NoEstimator == [fit_called |-> FALSE, fitted |-> FALSE, decision |-> <<>>]

TargetCells == {0, 1, NaN}
AnalysisCells == {1, 2, NaN}

InitCCD ==
    /\ fn = "class_conditional_distribution"
    /\ args = [target_col |-> "BAD", analysis_col |-> "LOAN"]
    /\ df \in SeqsOf([BAD : TargetCells, LOAN : AnalysisCells], 1, MaxRows)
    /\ pc = "called"
    /\ ret = <<>>
    /\ exc = <<>>
    /\ stdout = <<>>
    /\ iso = NoEstimator

class_conditional_distribution ==
    /\ fn = "class_conditional_distribution"
    /\ pc = "called"
    /\ ret' = <<class_conditional_distribution_table(df, args.target_col, args.analysis_col)>>
    /\ pc' = "returned"
    /\ UNCHANGED <<fn, df, args, exc, stdout, iso>>

NextCCD == class_conditional_distribution

SpecCCD == InitCCD /\ [][NextCCD]_vars

\* The rows of the dataset whose target cell is the level g.
RowsOfGroup(g) == LET InG(r) == r.BAD = g IN Len(SelectSeq(df, InG))

\* C1: every row of the table returned by class_conditional_distribution has
\* Missing + Non Missing equal to the number of input rows of its group, and
\* the _OVERALL_ row (the last one) to the number of rows of the dataset.
C1_MissingPlusNonMissing ==
    (fn = "class_conditional_distribution" /\ pc = "returned") =>
        LET t == ret[1] IN
        /\ Len(t) >= 1
        /\ \A i \in 1..(Len(t) - 1) :
              t[i].Missing + t[i].NonMissing = RowsOfGroup(t[i].TargetLevel)
        /\ t[Len(t)].Missing + t[Len(t)].NonMissing = Len(df)

\* A returned table with a group that has both missing and non-missing cells,
\* from a dataset that also has a row with a missing target.
C1_Witness ==
    /\ fn = "class_conditional_distribution" /\ pc = "returned"
    /\ Len(ret[1]) = 3
    /\ ret[1][1].Missing >= 1 /\ ret[1][1].NonMissing >= 1
    /\ \E i \in DOMAIN df : df[i].BAD = NaN

(***************************************************************************)
(* detect_outliers_isolation_forest                                        *)
(***************************************************************************)
\* The comprehension without its filter.
MissingFeaturesAll(features, columns) == features

\* [col for col in features if col not in df.columns]
RECURSIVE MissingFeatures(_, _)
MissingFeatures(features, columns) ==
    IF features = <<>> THEN <<>>
    ELSE (IF Head(features) \in Range(columns) THEN <<>> ELSE <<Head(features)>>)
         \o MissingFeatures(Tail(features), columns)

\* X = df[features].copy(): the feature matrix, one tuple of cells per row.
FeatureMatrix(rows, features) ==
    [i \in DOMAIN rows |-> [k \in DOMAIN features |-> rows[i][features[k]]]]

\* The decision-function values an estimator may give.
DecisionValues == {-1, 0, 1}

\* iso.fit(X) accepts a matrix with at least one row and one column.
FitAccepts(X, features) == Len(X) >= 1 /\ Len(features) >= 1

\* The estimators iso.fit(X) may produce: a decision function on the rows of X
\* (equal feature rows get equal values).
FittedEstimators(X) ==
    {[fit_called |-> TRUE, fitted |-> TRUE, decision |-> d] :
        d \in [Range(X) -> DecisionValues]}

\* iso.decision_function(X)
decision_function(est, X) == [i \in DOMAIN X |-> est.decision[X[i]]]

\* iso.predict(X): -1 (outlier) where the decision function is negative, else 1.
predict(est, X) == [i \in DOMAIN X |-> IF est.decision[X[i]] < 0 THEN -1 ELSE 1]

\* df_result['outlier_score'] = -iso.decision_function(X)
outlier_score(est, X) == [i \in DOMAIN X |-> 0 - decision_function(est, X)[i]]

\* The mapping with the labels confused: 1 (normal) flagged.
OutlierFlagInverted(flags) == [i \in DOMAIN flags |-> IF flags[i] = 1 THEN 1 ELSE 0]

\* (flags == -1).astype(int)
outlier_flag(flags) == [i \in DOMAIN flags |-> IF flags[i] = -1 THEN 1 ELSE 0]

\* df.copy() with the two columns assigned.
Augment(rows, score, flag) ==
    [i \in DOMAIN rows |->
        rows[i] @@ [outlier_score |-> score[i], outlier_flag |-> flag[i]]]

\* The index orders an ascending sort of the keys of S may produce with the
\* default kind='quicksort': equal keys come out in any order.
RECURSIVE SortOrders(_, _)
SortOrders(S, key) ==
    IF S = {} THEN {<<>>}
    ELSE LET m == SetMin({key[i] : i \in S})
         IN UNION {{<<i>> \o o : o \in SortOrders(S \ {i}, key)} :
                        i \in {j \in S : key[j] = m}}

Negated(key) == [i \in DOMAIN key |-> 0 - key[i]]

\* A sort that ignores ascending=False.
SortValuesAscendingOnly(key, ascending) == SortOrders(DOMAIN key, key)

\* sort_values(by, ascending): the indexers pandas' nargsort may return.
sort_values(key, ascending) ==
    IF ascending THEN SortOrders(DOMAIN key, key)
    ELSE SortOrders(DOMAIN key, Negated(key))

\* .reset_index(drop=True) of the rows taken in the order of the indexer.
Take(rows, indexer) == [k \in DOMAIN indexer |-> rows[indexer[k]]]

IfColumns == <<"x", "tag">>
IfCells == {0, 1}
FeatureLists == {<<"x">>, <<"x", "tag">>, <<"tag">>, <<"x", "z">>, <<"w", "x", "z">>,
                 <<"z", "z">>, <<"w">>, <<>>}

InitIF ==
    /\ fn = "detect_outliers_isolation_forest"
    /\ \E features \in FeatureLists :
          args = [features |-> features]
    /\ \E rows \in SeqsOf([x : IfCells, tag : IfCells], 0, MaxIfRows) :
          df = [columns |-> IfColumns, rows |-> rows]
    /\ pc = "called"
    /\ ret = <<>>
    /\ exc = <<>>
    /\ stdout = <<>>
    /\ iso = NoEstimator

detect_outliers_isolation_forest ==
    /\ fn = "detect_outliers_isolation_forest"
    /\ pc = "called"
    /\ LET missing == MissingFeatures(args.features, df.columns)
           X == FeatureMatrix(df.rows, args.features)
       IN IF missing # <<>>
          THEN /\ exc' = <<[type |-> "ValueError",
                            msg |-> "The following columns are missing in the DataFrame",
                            missing |-> missing]>>
               /\ pc' = "raised"
               /\ UNCHANGED <<ret, iso>>
          ELSE IF ~FitAccepts(X, args.features)
          THEN /\ exc' = <<[type |-> "ValueError", msg |-> "IsolationForest.fit",
                            missing |-> <<>>]>>
               /\ iso' = [NoEstimator EXCEPT !.fit_called = TRUE]
               /\ pc' = "raised"
               /\ UNCHANGED ret
          ELSE \E est \in FittedEstimators(X) :
               \E indexer \in sort_values(outlier_score(est, X), FALSE) :
                  /\ iso' = est
                  /\ ret' = <<[columns |-> df.columns \o <<"outlier_score", "outlier_flag">>,
                               rows |-> Take(Augment(df.rows, outlier_score(est, X),
                                                     outlier_flag(predict(est, X))),
                                             indexer)]>>
                  /\ pc' = "returned"
                  /\ UNCHANGED exc
    /\ UNCHANGED <<fn, df, args, stdout>>

NextIF == detect_outliers_isolation_forest

SpecIF == InitIF /\ [][NextIF]_vars

Permutations_(n) == {p \in [1..n -> 1..n] : \A i, j \in 1..n : p[i] = p[j] => i = j}

\* An output row without the two appended columns.
Original(r) == [x |-> r.x, tag |-> r.tag]

IfReturned == fn = "detect_outliers_isolation_forest" /\ pc = "returned"

\* C2: the table returned by detect_outliers_isolation_forest has as many rows
\* as the input, is a permutation of the input rows, each with a score and a
\* flag, and its rows are in non-increasing order of outlier_score.
C2_PermutationSortedDescending ==
    IfReturned =>
        LET out == ret[1].rows
            n == Len(df.rows)
        IN /\ Len(out) = n
           /\ \E p \in Permutations_(n) :
                 \A k \in 1..n : /\ Original(out[k]) = df.rows[p[k]]
                                 /\ DOMAIN out[k] = {"x", "tag", "outlier_score", "outlier_flag"}
           /\ \A k \in 1..(n - 1) : out[k].outlier_score >= out[k + 1].outlier_score

\* A returned table of three rows with two different scores whose input order
\* was not already descending.
C2_Witness ==
    /\ IfReturned
    /\ Len(ret[1].rows) = 3
    /\ ret[1].rows[1].outlier_score > ret[1].rows[3].outlier_score
    /\ Original(ret[1].rows[1]) # df.rows[1]

\* The augmented input rows in the order a stable descending sort gives them.
RECURSIVE StableDescending(_)
StableDescending(rows) ==
    IF rows = <<>> THEN <<>>
    ELSE LET m == SetMax({rows[i].outlier_score : i \in DOMAIN rows})
             i == SetMin({k \in DOMAIN rows : rows[k].outlier_score = m})
         IN <<rows[i]>> \o
            StableDescending(SubSeq(rows, 1, i - 1) \o SubSeq(rows, i + 1, Len(rows)))

\* C3: in the output of detect_outliers_isolation_forest rows with equal
\* outlier_score keep the relative order they had in the input: the output is
\* the stable descending sort of the augmented input.
C3_StableSort ==
    IfReturned =>
        LET X == FeatureMatrix(df.rows, args.features)
        IN ret[1].rows = StableDescending(Augment(df.rows, outlier_score(iso, X),
                                                  outlier_flag(predict(iso, X))))

clean_data(data) ==
    LET Valid(e) == notnull(e.value)
    IN SelectSeq([i \in DOMAIN data |-> [value |-> data[i], obs |-> i - 1]], Valid)

Values(clean) == [i \in DOMAIN clean |-> clean[i].value]

\* stats.mode: the smallest of the most frequent values.
Mode(s) ==
    LET Count(v) == Cardinality({i \in DOMAIN s : s[i] = v})
        top == SetMax({Count(v) : v \in Range(s)})
    IN SetMin({v \in Range(s) : Count(v) = top})

\* An interpolation that starts from the ceil order statistic.
QuantileFromCeil(s, level) ==
    LET n == Len(s)
        pos == level * (n - 1)
        i == pos \div 100
        rem == pos % 100
    IN IF rem = 0 THEN Num(s[i + 1])
       ELSE Rat(100 * s[i + 2] + (s[i + 2] - s[i + 1]) * rem, 100)

\* Series.quantile(level / 100) on the order statistics s: linear interpolation
\* at index level * (n - 1) / 100 between the floor and ceil order statistics.
Quantile(s, level) ==
    LET n == Len(s)
        pos == level * (n - 1)
        i == pos \div 100
        rem == pos % 100
    IN IF rem = 0 THEN Num(s[i + 1])
       ELSE Rat(100 * s[i + 1] + (s[i + 2] - s[i + 1]) * rem, 100)

\* The variance with divisor n (ddof=0).
VariancePopulation(s) ==
    LET n == Len(s) IN IF n = 0 THEN nan ELSE RatDiv(CentralSum(s, 2), n * n * n)

\* clean_data.var(ddof=1)
SampleVariance(s) == Variance(s)

\* stats.skew(bias=False): g1 = m3 / m2^1.5 kept as its central sums, corrected
\* for bias when n > 2; NaN for a column without variance.
ScipySkew(s) ==
    [nan |-> CentralSum(s, 2) = 0, corrected |-> Len(s) > 2, n |-> Len(s),
     m2 |-> CentralSum(s, 2), mk |-> CentralSum(s, 3)]

\* stats.kurtosis(bias=False, fisher=False): m4 / m2^2 kept as its central
\* sums, corrected for bias when n > 3; NaN for a column without variance.
ScipyKurtosis(s) ==
    [nan |-> CentralSum(s, 2) = 0, corrected |-> Len(s) > 3, n |-> Len(s),
     m2 |-> CentralSum(s, 2), mk |-> CentralSum(s, 4)]

RECURSIVE Choose(_, _)
Choose(n, k) == IF k = 0 THEN 1
                ELSE IF k > n THEN 0
                ELSE Choose(n - 1, k - 1) + Choose(n - 1, k)

\* stats.binom.cdf(k, n, 0.5) = sum_{j <= k} C(n, j) / 2^n
BinomCdfHalf(k, n) ==
    Rat(SeqSum([j \in 1..(k + 1) |-> Choose(n, j - 1)]), Pow(2, n))

Min2(a, b) == IF a <= b THEN a ELSE b

\* positive_count = np.sum(clean_data > 0)
PositiveCount(s) == LET Positive(v) == v > 0 IN Len(SelectSeq(s, Positive))

\* 2 * stats.binom.cdf(min(positive_count, n - positive_count), n, 0.5)
SignPvalue(s) ==
    LET n == Len(s)
        c == BinomCdfHalf(Min2(PositiveCount(s), n - PositiveCount(s)), n)
    IN Rat(2 * c.num, c.den)

\* The eleven levels of the quantile table, in percent.
QuantileLevels == <<0, 1, 5, 10, 25, 50, 75, 90, 95, 99, 100>>

\* clean_data.median() on the order statistics.
MedianOf(s) == Median(s)

\* The quantiles dictionary, in insertion order: min, median and max come from
\* their own reducers, the other levels from Series.quantile.
Quantiles(s) ==
    [k \in DOMAIN QuantileLevels |->
        LET level == QuantileLevels[k]
        IN [level |-> level,
            value |-> IF level = 0 THEN Minimum(s)
                      ELSE IF level = 50 THEN MedianOf(s)
                      ELSE IF level = 100 THEN Maximum(s)
                      ELSE Quantile(s, level)]]

\* for i in range(min(5, len(sorted_with_index))): iloc[i]
lowest_extreme(sorted_with_index) ==
    SubSeq(sorted_with_index, 1, Min2(5, Len(sorted_with_index)))

Reverse(s) == [i \in DOMAIN s |-> s[Len(s) + 1 - i]]

\* for i in range(min(5, len(sorted_with_index))): iloc[-(i+1)], and then
\* highest_extreme.reverse()
highest_extreme(sorted_with_index) ==
    LET n == Len(sorted_with_index)
        taken == [i \in 1..Min2(5, n) |-> sorted_with_index[n + 1 - i]]
    IN Reverse(taken)

\* (std_dev / mean) * 100 if mean != 0 else np.nan, as a signed square root.
CoeffVariation(variance, mean) ==
    IF mean.num = 0 \/ variance.nan THEN [nan |-> TRUE, negative |-> FALSE, radicand |-> nan]
    ELSE [nan |-> FALSE, negative |-> mean.num < 0,
          radicand |-> Rat(10000 * variance.num * mean.den * mean.den,
                           variance.den * mean.num * mean.num)]

\* The statistics proc_univariate computes before the extreme observations,
\* for the non-missing observations `clean`.
UnivariateStatistics(clean, variable_name) ==
    LET v == Values(clean)
        s == np_sort(v)
        n == Len(v)
        mean == Mean(v)
        variance == SampleVariance(v)
        q1 == Quantile(s, 25)
        q3 == Quantile(s, 75)
    IN [variable_name |-> variable_name,
        n |-> n,
        mean |-> mean,
        std_dev |-> Sqrt(variance),
        skewness |-> ScipySkew(v),
        uncorrected_ss |-> SeqSum([i \in DOMAIN v |-> v[i] * v[i]]),
        coeff_variation |-> CoeffVariation(variance, mean),
        sum_weights |-> n,
        sum_observations |-> SeqSum(v),
        variance |-> variance,
        kurtosis |-> ScipyKurtosis(v),
        corrected_ss |-> Rat(CentralSum(v, 2), n * n),
        std_error_mean |-> Sqrt(IF variance.nan THEN nan
                                ELSE Rat(variance.num, variance.den * n)),
        median |-> MedianOf(v),
        mode |-> Num(Mode(v)),
        range |-> RatSub(Maximum(v), Minimum(v)),
        iqr |-> RatSub(q3, q1),
        sign_statistic |-> PositiveCount(v),
        sign_pvalue |-> SignPvalue(v),
        quantiles |-> Quantiles(s)]

\* The dictionary proc_univariate returns: the statistics and the extreme
\* observations taken from one outcome of clean_data.sort_values().
UnivariateResult(statistics, sorted_with_index) ==
    statistics @@
    [extreme_observations |->
        [lowest |-> lowest_extreme(sorted_with_index),
         highest |-> highest_extreme(sorted_with_index)]]

\* The lines proc_univariate prints before the extreme observations, each by
\* its leading label.  The "Student's t" line is taken as intended: as written
\* (line 139) its f-string holds a backslash inside an expression, which Python
\* rejects when it compiles the file.
ReportSections(r) ==
    <<"The UNIVARIATE Procedure", "Variable", "Moments", "N", "Mean",
      "Std Deviation", "Skewness", "Uncorrected SS", "Coeff Variation",
      "Basic Statistical Measures", "Location", "Mean", "Median", "Mode",
      "Interquartile Range", "Tests for Location: Mu0=0", "Test", "Student's t",
      "Sign", "Quantiles (Definition 5)", "Level">>
    \o [k \in DOMAIN r.quantiles |-> "Quantile"]

\* The lines of the Extreme Observations section: three headers and one line
\* per pair of entries.
ExtremeLines(extreme) ==
    <<"Extreme Observations", "Lowest", "Value">>
    \o [i \in DOMAIN extreme.lowest |-> "Obs"]

ObsCells == {-1, 0, 2, NaN}

InitPU ==
    /\ fn = "proc_univariate"
    /\ args = [variable_name |-> "Variable"]
    /\ df \in SeqsOf(ObsCells, 0, MaxObs)
    /\ pc = "called"
    /\ ret = <<>>
    /\ exc = <<>>
    /\ stdout = <<>>
    /\ iso = NoEstimator

proc_univariate ==
    /\ fn = "proc_univariate"
    /\ pc = "called"
    /\ LET clean == clean_data(df)
       IN IF Len(clean) = 0
          THEN /\ exc' = <<[type |-> "ValueError", msg |-> "No valid observations found",
                            missing |-> <<>>]>>
               /\ pc' = "raised"
               /\ UNCHANGED <<ret, stdout>>
          ELSE \E statistics \in {UnivariateStatistics(clean, args.variable_name)} :
               \E sections \in {ReportSections(statistics)} :
               \E indexer \in sort_values(Values(clean), TRUE) :
               \E sorted_with_index \in {Take(clean, indexer)} :
                  LET r == UnivariateResult(statistics, sorted_with_index)
                  IN /\ stdout' = sections \o ExtremeLines(r.extreme_observations)
                     /\ ret' = <<r>>
                     /\ pc' = "returned"
                     /\ UNCHANGED exc
    /\ UNCHANGED <<fn, df, args, iso>>

NextPU == proc_univariate

SpecPU == InitPU /\ [][NextPU]_vars

PuReturned == fn = "proc_univariate" /\ pc = "returned"

\* The non-missing observations of the column, ascending.
SortedObs == np_sort(dropna(df))

\* An extreme-observation entry carries the row index of its value.
CarriesRowIndex(e) == e.obs + 1 \in DOMAIN df /\ df[e.obs + 1] = e.value

\* C5: the lowest list holds the min(5, n) smallest values in ascending order
\* and the highest list holds the min(5, n) largest values in descending
\* order, each entry with the original row index of its value.
C5_ExtremeObservations ==
    PuReturned =>
        LET e == ret[1].extreme_observations
            n == Len(SortedObs)
            k == Min2(5, n)
        IN /\ Len(e.lowest) = k /\ Len(e.highest) = k
           /\ \A i \in 1..k : /\ e.lowest[i].value = SortedObs[i]
                              /\ e.highest[i].value = SortedObs[n + 1 - i]
                              /\ CarriesRowIndex(e.lowest[i])
                              /\ CarriesRowIndex(e.highest[i])

\* All non-missing observations of the column are the same value.
ConstantColumn == Cardinality(Range(dropna(df))) = 1
ConstantValue == Num(dropna(df)[1])

\* What C6 says of every statistic but the standard deviation and the variance.
ConstantColumnLocation(r) ==
    /\ RatEq(r.mean, ConstantValue)
    /\ RatEq(r.median, ConstantValue)
    /\ RatEq(r.mode, ConstantValue)
    /\ RatEq(r.range, Num(0))
    /\ RatEq(r.iqr, Num(0))
    /\ Len(r.quantiles) = 11
    /\ \A k \in DOMAIN r.quantiles : RatEq(r.quantiles[k].value, ConstantValue)
    /\ r.skewness.nan
    /\ r.kurtosis.nan

C7_QuantilesMonotone ==
    PuReturned =>
        LET q == ret[1].quantiles
        IN /\ Len(q) = 11
           /\ \A k \in 1..10 : /\ q[k].level < q[k + 1].level
                               /\ RatLeq(q[k].value, q[k + 1].value)

\* A quantile table with an interpolated 1% level strictly between the two
\* smallest observations and a median between two middle observations.
C7_Witness ==
    /\ PuReturned
    /\ ret[1].n = 4
    /\ LET q == ret[1].quantiles
       IN /\ ~RatLeq(q[2].value, q[1].value)
          /\ ~RatLeq(q[6].value, q[5].value)
          /\ ~RatLeq(q[11].value, q[10].value)

\* C10: the sign-test p-value is a probability, 0 <= sign_pvalue <= 1.
C10_SignPvalueIsProbability ==
    PuReturned =>
        /\ 0 <= ret[1].sign_pvalue.num
        /\ ret[1].sign_pvalue.num <= ret[1].sign_pvalue.den

(***************************************************************************)
(* stat_explore                                                            *)
(***************************************************************************)
\* A selection that keeps every column, whatever its dtype.
SelectAllColumns(columns) == columns

\* df.select_dtypes(include=[np.number]).columns.tolist()
select_dtypes_number(columns) ==
    LET IsNumber(c) == c.dtype = "float64"
    IN SelectSeq(columns, IsNumber)

\* The stats_dict of one numeric column.
stats_dict(col) ==
    LET data == col.cells
        clean == dropna(data)
        n_total == Len(data)
        n_valid == Len(clean)
        n_missing == n_total - n_valid
    IN IF n_valid = 0
       THEN [Variable |-> col.name, Role |-> "INPUT", Mean |-> nan,
             StandardDeviation |-> Sqrt(nan), NonMissing |-> 0,
             Missing |-> n_missing, Minimum |-> nan, Median |-> nan,
             Maximum |-> nan, Skewness |-> [nan |-> TRUE], Kurtosis |-> [nan |-> TRUE]]
       ELSE [Variable |-> col.name, Role |-> "INPUT", Mean |-> Mean(clean),
             StandardDeviation |-> StdDev(clean), NonMissing |-> n_valid,
             Missing |-> n_missing, Minimum |-> Minimum(clean),
             Median |-> Median(clean), Maximum |-> Maximum(clean),
             Skewness |-> ScipySkew(clean), Kurtosis |-> ScipyKurtosis(clean)]

\* The lines print_stat_explore_results prints: the header block, one line per
\* row of the table, the rule and the trailing count.
print_stat_explore_results(results_df) ==
    <<  <<"Variable Analysis Summary">>, <<"=">>, <<"Variable">>, <<"Deviation">>,
        <<"-">>  >>
    \o [i \in DOMAIN results_df |-> <<"row", results_df[i].Variable>>]
    \o <<  <<"-">>, <<"Total variables analyzed: ", Len(results_df)>>  >>

ColumnNames == <<"LOAN", "REASON", "VALUE", "JOB", "YOJ", "DEBTINC">>
Dtypes == {"float64", "object"}
SeCells == {1, NaN}

InitSE ==
    /\ fn = "stat_explore"
    /\ args = [role_column |-> "None"]
    /\ \E ncols \in 0..MaxCols, nrows \in 0..MaxSeRows :
          df \in [1..ncols -> [dtype : Dtypes, cells : [1..nrows -> SeCells]]]
    /\ pc = "called"
    /\ ret = <<>>
    /\ exc = <<>>
    /\ stdout = <<>>
    /\ iso = NoEstimator

\* The dataset's columns with their names, in column order.
NamedColumns(d) ==
    [k \in DOMAIN d |-> [name |-> ColumnNames[k], dtype |-> d[k].dtype,
                         cells |-> d[k].cells]]

stat_explore ==
    /\ fn = "stat_explore"
    /\ pc = "called"
    /\ LET numeric_cols == select_dtypes_number(NamedColumns(df))
       IN IF Len(numeric_cols) = 0
          THEN /\ exc' = <<[type |-> "ValueError",
                            msg |-> "No numeric columns found in DataFrame",
                            missing |-> <<>>]>>
               /\ pc' = "raised"
               /\ UNCHANGED <<ret, stdout>>
          ELSE LET results == [k \in DOMAIN numeric_cols |-> stats_dict(numeric_cols[k])]
               IN /\ stdout' = print_stat_explore_results(results)
                  /\ ret' = <<results>>
                  /\ pc' = "returned"
                  /\ UNCHANGED exc
    /\ UNCHANGED <<fn, df, args, iso>>

NextSE == stat_explore

SpecSE == InitSE /\ [][NextSE]_vars

\* The positions of the numeric-typed columns of the dataset, ascending.
NumericPositions == Ascending({k \in DOMAIN df : df[k].dtype = "float64"})

\* C8: stat_explore fails with the no-numeric-columns error exactly when no
\* column is numeric-typed; otherwise it returns one row per numeric column,
\* in column order, none for another column, and the printed trailing count
\* is the number of rows.
C8_OneRowPerNumericColumn ==
    (fn = "stat_explore" /\ pc # "called") =>
        /\ (pc = "raised") <=> (NumericPositions = <<>>)
        /\ (pc = "raised") =>
              /\ exc[1].type = "ValueError"
              /\ exc[1].msg = "No numeric columns found in DataFrame"
        /\ (pc = "returned") =>
              /\ Len(ret[1]) = Len(NumericPositions)
              /\ \A i \in DOMAIN ret[1] :
                    ret[1][i].Variable = ColumnNames[NumericPositions[i]]
              /\ stdout[Len(stdout)] = <<"Total variables analyzed: ", Len(ret[1])>>

\* A table of two rows from a dataset whose middle column is not numeric.
C8_Witness ==
    /\ fn = "stat_explore" /\ pc = "returned"
    /\ Len(df) = 3 /\ df[2].dtype = "object"
    /\ Len(ret[1]) = 2
    /\ ret[1][2].Variable = "VALUE"

(***************************************************************************)
(* The package: a call of any of the four routines.                        *)
(***************************************************************************)
Init == InitCCD \/ InitIF \/ InitPU \/ InitSE

Next ==
    \/ class_conditional_distribution
    \/ detect_outliers_isolation_forest
    \/ proc_univariate
    \/ stat_explore

Spec == Init /\ [][Next]_vars

\* The feature names the dataset has no column for.
AbsentNames == {f \in Range(args.features) : f \notin Range(df.columns)}

\* The call fails without a result: nothing returned, nothing printed, the
\* input as it was.
NoPartialResult == ret' = <<>> /\ stdout' = <<>> /\ df' = df /\ args' = args

\* C9: every failure is fail-fast with no partial result: an absent feature
\* name raises ValueError listing exactly the absent names before the estimator
\* is fitted; a column without observations raises before a report line is
\* printed; a dataset without numeric column raises before a report line is
\* printed; nothing is returned and the input is unchanged.
C9_FailFast ==
    [][(pc = "called" /\ pc' # "called") =>
        /\ (fn = "detect_outliers_isolation_forest" /\ AbsentNames # {}) =>
              /\ pc' = "raised"
              /\ exc'[1].type = "ValueError"
              /\ Range(exc'[1].missing) = AbsentNames
              /\ ~iso'.fit_called
              /\ NoPartialResult
        /\ (fn = "proc_univariate" /\ dropna(df) = <<>>) =>
              /\ pc' = "raised"
              /\ exc'[1].type = "ValueError"
              /\ NoPartialResult
        /\ (fn = "stat_explore" /\ \A k \in DOMAIN df : df[k].dtype # "float64") =>
              /\ pc' = "raised"
              /\ exc'[1].type = "ValueError"
              /\ NoPartialResult
        /\ (pc' = "raised") => NoPartialResult]_vars

\* A failed call with two absent feature names around a present one.
C9_Witness ==
    /\ fn = "detect_outliers_isolation_forest" /\ pc = "raised"
    /\ args.features = <<"w", "x", "z">>
    /\ exc[1].missing = <<"w", "z">>
    /\ Len(df.rows) >= 1
    /\ ~iso.fit_called /\ ret = <<>>

====
